---- MODULE Spec2Model ----
(***************************************************************************)
(* Stiebel Eltron ISG Modbus session (pystiebeleltron.StiebelEltronAPI):   *)
(* the register catalogue, the raw word <-> engineering value codec, the   *)
(* block-wise update() and set_register().                                 *)
(*                                                                         *)
(* Python values are modelled as follows.  A number is [mant, dec], the    *)
(* decimal mant * 10^-dec (22.5 is [mant |-> 225, dec |-> 1]).  A decoded  *)
(* register value is a record [kind, name, mant, dec, labels]: an error    *)
(* name (kind "error"), a number (kind "num") or a list of code labels     *)
(* (kind "coded").  A dictionary key that may be absent ('value',          *)
(* 'value_raw') is a sequence of length 0 or 1.  The display-only 'unit'   *)
(* key of a register is left out.                                          *)
(***************************************************************************)
EXTENDS Integers, Sequences, FiniteSets, TLC

(***************************************************************************)
(* The register catalogue REGISTERS, transcribed entry by entry, in        *)
(* declaration order.  A code map is the sequence of its <<label, value>>  *)
(* items in declaration order.                                             *)
(***************************************************************************)
LWZ_ERRORS ==
    << <<"N/A", 32768>>,
       <<"SENSOR_LEAD_MISSING", -60>>,
       <<"SHORTCUT", -50>> >>

LWZ_BLOCK1_INPUT ==
    << [name |-> "ACTUAL_ROOM_TEMPERATURE_HC1", addr |-> 1, type |-> 2],
       [name |-> "SET_ROOM_TEMPERATURE_HC1", addr |-> 2, type |-> 2],
       [name |-> "ACTUAL_ROOM_TEMPERATURE_HC2", addr |-> 4, type |-> 2],
       [name |-> "SET_ROOM_TEMPERATURE_HC2", addr |-> 5, type |-> 2],
       [name |-> "RELATIVE_HUMIDITY_HC1", addr |-> 3, type |-> 2],
       [name |-> "RELATIVE_HUMIDITY_HC2", addr |-> 6, type |-> 2],
       [name |-> "OUTSIDE_TEMPERATURE", addr |-> 7, type |-> 2],
       [name |-> "ACTUAL_VALUE_HC1", addr |-> 8, type |-> 2],
       [name |-> "SET_VALUE_HC1", addr |-> 9, type |-> 2],
       [name |-> "ACTUAL_VALUE_HC2", addr |-> 10, type |-> 2],
       [name |-> "SET_VALUE_HC2", addr |-> 11, type |-> 2],
       [name |-> "FLOW_TEMPERATURE", addr |-> 12, type |-> 2],
       [name |-> "RETURN_TEMPERATURE", addr |-> 13, type |-> 2],
       [name |-> "PRESSURE_HEATING_CIRCUIT", addr |-> 14, type |-> 2],
       [name |-> "FLOW_RATE", addr |-> 15, type |-> 2],
       [name |-> "ACTUAL_DHW_TEMPERATURE", addr |-> 16, type |-> 2],
       [name |-> "SET_DHW_TEMPERATURE", addr |-> 17, type |-> 2],
       [name |-> "VENTILATION_AIR_ACTUAL_FAN_SPEED", addr |-> 18, type |-> 6],
       [name |-> "VENTILATION_AIR_SET_FLOW_RATE", addr |-> 19, type |-> 6],
       [name |-> "EXTRACT_AIR_ACTUAL_FAN_SPEED", addr |-> 20, type |-> 6],
       [name |-> "EXTRACT_AIR_SET_FLOW_RATE", addr |-> 21, type |-> 6],
       [name |-> "EXTRACT_AIR_HUMIDITY", addr |-> 22, type |-> 6],
       [name |-> "EXTRACT_AIR_TEMPERATURE", addr |-> 23, type |-> 2],
       [name |-> "EXTRACT_AIR_DEW_POINT", addr |-> 24, type |-> 2],
       [name |-> "DEW_POINT_TEMPERATURE_HC1", addr |-> 25, type |-> 2],
       [name |-> "DEW_POINT_TEMPERATURE_HC2", addr |-> 26, type |-> 2],
       [name |-> "COLLECTOR_TEMPERATURE", addr |-> 27, type |-> 2],
       [name |-> "HOT_GAS_TEMPERATURE", addr |-> 28, type |-> 2],
       [name |-> "HIGH_PRESSURE", addr |-> 29, type |-> 7],
       [name |-> "LOW_PRESSURE", addr |-> 30, type |-> 7],
       [name |-> "COMPRESSOR_STARTS", addr |-> 31, type |-> 6],
       [name |-> "COMPRESSOR_SPEED", addr |-> 32, type |-> 2],
       [name |-> "MIXED_WATER_AMOUNT", addr |-> 33, type |-> 6] >>

LWZ_BLOCK2_HOLDING ==
    << [name |-> "OPERATING_MODE", addr |-> 1001, type |-> 8,
         code |-> << <<"AUTOMATIC", 11>>,
                     <<"STANDBY", 1>>,
                     <<"DAY MODE", 3>>,
                     <<"SETBACK MODE", 4>>,
                     <<"DHW", 5>>,
                     <<"MANUAL MODE", 14>>,
                     <<"EMERGENCY OPERATION", 0>> >>],
       [name |-> "ROOM_TEMP_HEAT_DAY_HC1", addr |-> 1002, type |-> 2],
       [name |-> "ROOM_TEMP_HEAT_NIGHT_HC1", addr |-> 1003, type |-> 2],
       [name |-> "MANUAL_SET_TEMP_HC1", addr |-> 1004, type |-> 2],
       [name |-> "ROOM_TEMP_HEAT_DAY_HC2", addr |-> 1005, type |-> 2],
       [name |-> "ROOM_TEMP_HEAT_NIGHT_HC2", addr |-> 1006, type |-> 2],
       [name |-> "MANUAL_SET_TEAMP_HC2", addr |-> 1007, type |-> 2],
       [name |-> "GRADIENT_HC1", addr |-> 1008, type |-> 7],
       [name |-> "LOW_END_HC1", addr |-> 1009, type |-> 2],
       [name |-> "GRADIENT_HC2", addr |-> 1010, type |-> 7],
       [name |-> "LOW_END_HC2", addr |-> 1011, type |-> 2],
       [name |-> "DHW_TEMP_SET_DAY", addr |-> 1012, type |-> 2],
       [name |-> "DHW_TEMP_SET_NIGHT", addr |-> 1013, type |-> 2],
       [name |-> "DHW_TEMP_SET_MANUAL", addr |-> 1014, type |-> 2],
       [name |-> "MWM_SET_DAY", addr |-> 1015, type |-> 6],
       [name |-> "MWM_SET_NIGHT", addr |-> 1016, type |-> 6],
       [name |-> "MWM_SET_MANUAL", addr |-> 1017, type |-> 6],
       [name |-> "DAY_STAGE", addr |-> 1018, type |-> 6],
       [name |-> "NIGHT_STAGE", addr |-> 1019, type |-> 6],
       [name |-> "PARTY_STAGE", addr |-> 1020, type |-> 6],
       [name |-> "MANUAL_STAGE", addr |-> 1021, type |-> 6],
       [name |-> "ROOM_TEMP_COOL_DAY_HC1", addr |-> 1022, type |-> 2],
       [name |-> "ROOM_TEMP_COOL_NIGHT_HC1", addr |-> 1023, type |-> 2],
       [name |-> "ROOM_TEMP_COOL_DAY_HC2", addr |-> 1024, type |-> 2],
       [name |-> "ROOM_TEMP_COOL_NIGHT_HC2", addr |-> 1025, type |-> 2],
       [name |-> "RESET", addr |-> 1026, type |-> 6,
         code |-> << <<"OFF", 0>>,
                     <<"ON", 1>> >>],
       [name |-> "RESTART_ISG", addr |-> 1027, type |-> 6,
         code |-> << <<"OFF", 0>>,
                     <<"RESET", 1>>,
                     <<"MENU", 2>> >>] >>

LWZ_BLOCK3_INPUT ==
    << [name |-> "OPERATING_STATUS", addr |-> 2001, type |-> 6,
         code |-> << <<"SWITCHING_PROGRAM_ENABLED", 1>>,
                     <<"COMPRESSOR", 2>>,
                     <<"HEATING", 4>>,
                     <<"COOLING", 8>>,
                     <<"DHW", 16>>,
                     <<"ELECTRIC_REHEATING", 32>>,
                     <<"SERVICE", 64>>,
                     <<"POWER-OFF", 128>>,
                     <<"FILTER", 256>>,
                     <<"VENTILATION", 512>>,
                     <<"HEATING_CIRCUIT_PUMP", 1024>>,
                     <<"EVAPORATOR_DEFROST", 2048>>,
                     <<"FILTER_EXTRACT_AIR", 4096>>,
                     <<"FILTER_VENTILATION_AIR", 8192>>,
                     <<"HEAT-UP_PROGRAM", 16384>> >>],
       [name |-> "FAULT_STATUS", addr |-> 2002, type |-> 6,
         code |-> << <<"NO_FAULT", 0>>,
                     <<"FAULT", 1>> >>],
       [name |-> "BUS_STATUS", addr |-> 2003, type |-> 6,
         code |-> << <<"STATUS OK", 0>>,
                     <<"STATUS ERROR", -1>>,
                     <<"ERROR-PASSIVE", -2>>,
                     <<"BUS-OFF", -3>>,
                     <<"PHYSICAL-ERROR", -4>> >>],
       [name |-> "DEFROST_INITIATED", addr |-> 2004, type |-> 6,
         code |-> << <<"OFF", 0>>,
                     <<"INITIATED", 1>> >>],
       [name |-> "OPERATING_STATUS-2", addr |-> 2005, type |-> 6,
         code |-> << <<"SUMMER_MODE_ACTIVE", 1>>,
                     <<"OVEN/FIREPLACE_MODE_ACTIVE", 2>> >>] >>

LWZ_BLOCK4_INPUT ==
    << [name |-> "HEAT_METER_HEATING_DAY", addr |-> 3001, type |-> 6],
       [name |-> "HEAT_METER_HEATING_TOTAL_kWh", addr |-> 3002, type |-> 6],
       [name |-> "HEAT_METER_HEATING_TOTAL_MWh", addr |-> 3003, type |-> 6],
       [name |-> "HEAT_METER_DHW_DAY", addr |-> 3004, type |-> 6],
       [name |-> "HEAT_METER_DHW_TOTAL_kWh", addr |-> 3005, type |-> 6],
       [name |-> "HEAT_METER_DHW_TOTAL_MWh", addr |-> 3006, type |-> 6],
       [name |-> "HEAT_METER_BOOST_HEATING_TOTAL_kWh", addr |-> 3007, type |-> 6],
       [name |-> "HEAT_METER_BOOST_HEATING_TOTAL_MWh", addr |-> 3008, type |-> 6],
       [name |-> "HEAT_METER_BOOST_DHW_TOTAL_kWh", addr |-> 3009, type |-> 6],
       [name |-> "HEAT_METER_BOOST_DHW_TOTAL_MWh", addr |-> 3010, type |-> 6],
       [name |-> "HEAT_METER_RECOVERY_DAY", addr |-> 3011, type |-> 6],
       [name |-> "HEAT_METER_RECOVERY_TOTAL_kWh", addr |-> 3012, type |-> 6],
       [name |-> "HEAT_METER_RECOVERY_TOTAL_MWh", addr |-> 3013, type |-> 6],
       [name |-> "HEAT_METER_SOLAR_HEATING_DAY", addr |-> 3014, type |-> 6],
       [name |-> "HEAT_METER_SOLAR_HEATING_TOTAL_kWh", addr |-> 3015, type |-> 6],
       [name |-> "HEAT_METER_SOLAR_HEATING_TOTAL_MWh", addr |-> 3016, type |-> 6],
       [name |-> "HEAT_METER_SOLAR_DHW_DAY", addr |-> 3017, type |-> 6],
       [name |-> "HEAT_METER_SOLAR_DHW_TOTAL_kWh", addr |-> 3018, type |-> 6],
       [name |-> "HEAT_METER_SOLAR_DHW_TOTAL_MWh", addr |-> 3019, type |-> 6],
       [name |-> "HEAT_METER_COOLING_TOTAL_kWh", addr |-> 3020, type |-> 6],
       [name |-> "HEAT_METER_COOLING_TOTAL_MWh", addr |-> 3021, type |-> 6],
       [name |-> "POWER_METER_HEATING_DAY", addr |-> 3022, type |-> 6],
       [name |-> "POWER_METER_HEATING_TOTAL_kWh", addr |-> 3023, type |-> 6],
       [name |-> "POWER_METER_HEATING_TOTAL_MWh", addr |-> 3024, type |-> 6],
       [name |-> "POWER_METER_DHW_DAY", addr |-> 3025, type |-> 6],
       [name |-> "POWER_METER_DHW_TOTAL_kWh", addr |-> 3026, type |-> 6],
       [name |-> "POWER_METER_DHW_TOTAL_MWh", addr |-> 3027, type |-> 6],
       [name |-> "TIMER_COMPRESSOR_HEATING", addr |-> 3028, type |-> 6],
       [name |-> "TIMER_COMPRESSOR_COOLING", addr |-> 3029, type |-> 6],
       [name |-> "TIMER_COMPRESSOR_DHW", addr |-> 3030, type |-> 6],
       [name |-> "TIMER_BOOSTER_HEATING", addr |-> 3031, type |-> 6],
       [name |-> "TIMER_BOOSTER_DHW", addr |-> 3032, type |-> 6] >>

LWZ_BLOCK5_HOLDING ==
    << [name |-> "EM_SGREADY_SWITCH", addr |-> 4001, type |-> 6,
         code |-> << <<"OFF", 0>>,
                     <<"ON", 1>> >>],
       [name |-> "EM_SGREADY_INPUT_1", addr |-> 4002, type |-> 6,
         code |-> << <<"OFF", 0>>,
                     <<"ON", 1>> >>],
       [name |-> "EM_SGREADY_INPUT_2", addr |-> 4003, type |-> 6,
         code |-> << <<"OFF", 0>>,
                     <<"ON", 1>> >>] >>

LWZ_BLOCK6_INPUT ==
    << [name |-> "EM_SGREADY_OPERATING_MODE", addr |-> 5001, type |-> 6,
         code |-> << <<"REDUCED", 1>>,
                     <<"STANDARD", 2>>,
                     <<"INCREASED", 3>>,
                     <<"MAXIMIZED", 4>> >>],
       [name |-> "CONTROLLER_ID", addr |-> 5002, type |-> 6,
         code |-> << <<"LWZ 303/403 Integral/SOL; LWA 403; LWZ 304/404 Trend; LWZ 304/404 Flex; LWZ Smart; LWZ 604 Air; LWZ 5 S Plus/Trend/Smart", 103>>,
                     <<"LWZ 304/404 SOL; LWZ 504; LWZ 5/8 CS Premium", 104>>,
                     <<"WPM 3", 390>>,
                     <<"WPM 3i", 391>>,
                     <<"WPMsystem", 449>> >>] >>

LWZ_BLOCKS ==
    << [INPUT |-> LWZ_BLOCK1_INPUT],
       [HOLDING |-> LWZ_BLOCK2_HOLDING],
       [INPUT |-> LWZ_BLOCK3_INPUT],
       [INPUT |-> LWZ_BLOCK4_INPUT],
       [HOLDING |-> LWZ_BLOCK5_HOLDING],
       [INPUT |-> LWZ_BLOCK6_INPUT] >>

\* 'WPM': {} has no key at all: the function with the empty domain.
WPM_TABLE == [k \in {} |-> k]

REGISTERS == [LWZ |-> [ERRORS |-> LWZ_ERRORS, BLOCKS |-> LWZ_BLOCKS], WPM |-> WPM_TABLE]

\* The (block, rtype) lists of a table, in the order update() visits them.
RTYPES == <<"INPUT", "HOLDING">>

BlockKeys(block) == SelectSeq(RTYPES, LAMBDA t : t \in DOMAIN block)

RECURSIVE ListsFrom(_, _)
ListsFrom(blocks, b) ==
    IF b > Len(blocks) THEN <<>>
    ELSE [i \in 1..Len(BlockKeys(blocks[b])) |->
            [block |-> b, rtype |-> BlockKeys(blocks[b])[i],
             regs |-> blocks[b][BlockKeys(blocks[b])[i]]]]
         \o ListsFrom(blocks, b + 1)

LWZ_LISTS == ListsFrom(LWZ_BLOCKS, 1)

NumLists == Len(LWZ_LISTS)

AllItems == UNION {{LWZ_LISTS[k].regs[i] : i \in 1..Len(LWZ_LISTS[k].regs)} : k \in 1..Len(LWZ_LISTS)}

ItemOf(n) == CHOOSE it \in AllItems : it.name = n

----------------------------------------------------------------------------
(* Python values *)

MkNum(m, d) == [kind |-> "num", name |-> "", mant |-> m, dec |-> d, labels |-> <<>>]

MkError(n) == [kind |-> "error", name |-> n, mant |-> 0, dec |-> 0, labels |-> <<>>]

MkCoded(l) == [kind |-> "coded", name |-> "", mant |-> 0, dec |-> 0, labels |-> l]

RECURSIVE Pow10(_)
Pow10(n) == IF n <= 0 THEN 1 ELSE 10 * Pow10(n - 1)

\* a == b for two numbers (Python compares int and float by value).
NumEq(a, b) == a.mant * Pow10(b.dec) = b.mant * Pow10(a.dec)

\* Python's a & b on unbounded two's-complement integers.
RECURSIVE BitAnd(_, _)
BitAnd(a, b) ==
    IF a = 0 \/ b = 0 THEN 0
    ELSE IF a = -1 THEN b
    ELSE IF b = -1 THEN a
    ELSE (a % 2) * (b % 2) + 2 * BitAnd(a \div 2, b \div 2)

\* round(n / d) for an integer n and d > 0: to nearest, a tie to the even neighbour.
RoundHalfEven(n, d) ==
    LET q == n \div d
        r == n % d
    IN  IF 2 * r < d THEN q
        ELSE IF 2 * r > d THEN q + 1
        ELSE IF q % 2 = 0 THEN q ELSE q + 1

(***************************************************************************)
(* round(result * 0.01, 1) in tenths.  The product is a binary double, so  *)
(* a decimal tie (result ending in 5) goes to whichever neighbour the      *)
(* double lies nearer to (or to the even one when it is exact).            *)
(* FloatTieUp lists the ties among the raw words -105..405, 32765 and      *)
(* 65535 that CPython rounds to the upper neighbour; every other tie in    *)
(* that range goes to the lower one.                                       *)
(***************************************************************************)
FloatTieUp ==
    {-85, -25, -15, 5, 35, 45, 55, 65, 75, 95, 105, 115, 135, 155, 165, 175,
     185, 235, 245, 255, 275, 285, 295, 305, 335, 345, 355, 375, 385, 395,
     32765, 65535}

RoundHundredthsTo1(result) ==
    LET q == result \div 10
        r == result % 10
    IN  IF r < 5 THEN q
        ELSE IF r > 5 THEN q + 1
        ELSE IF result \in FloatTieUp THEN q + 1 ELSE q

----------------------------------------------------------------------------
(* The value codec: update()'s per-register decoding, set_register()'s encoding *)

\* Only the first entry of the error table compared.
ErrorLookup_FirstOnly(errors, result) ==
    IF errors # <<>> /\ errors[1][2] = result THEN <<errors[1][1]>> ELSE <<>>

\* for (err_name, err_code) in ERRORS.items(): if result == err_code: ...
\* After a hit result is the name, a string, which equals no later code.
ErrorLookup(errors, result) ==
    LET hits == {i \in DOMAIN errors : errors[i][2] = result}
    IN  IF hits = {} THEN <<>>
        ELSE <<errors[CHOOSE i \in hits : \A j \in hits : i <= j][1]>>

\* if item['type'] == 2: round(result * 0.1, 1); if item['type'] == 7: round(result * 0.01, 1)
ScaleByType(type, result) ==
    IF type = 2 THEN MkNum(result, 1)
    ELSE IF type = 7 THEN MkNum(RoundHundredthsTo1(result), 1)
    ELSE MkNum(result, 0)

\* An exact match appended like a common bit, without the reset and the break.
RECURSIVE CodedLoop_NoReset(_, _, _, _)
CodedLoop_NoReset(code, i, result, coded) ==
    IF i > Len(code) THEN coded
    ELSE CodedLoop_NoReset(code, i + 1, result,
                           IF result = code[i][2] \/ BitAnd(result, code[i][2]) # 0
                           THEN Append(coded, code[i][1]) ELSE coded)

\* for c in item['code'].keys(): exact match resets and stops, a common bit appends.
RECURSIVE CodedLoop(_, _, _, _)
CodedLoop(code, i, result, coded) ==
    IF i > Len(code) THEN coded
    ELSE IF result = code[i][2] THEN <<code[i][1]>>
    ELSE CodedLoop(code, i + 1, result,
                   IF BitAnd(result, code[i][2]) # 0
                   THEN Append(coded, code[i][1]) ELSE coded)

\* The body of update()'s loop over one list's words: the register's new
\* 'value_raw' and 'value'.  Every coded register is of type 6 or 8, so the
\* scaled value handed to the code map is the integer word itself.
DecodeItem(item, result, errors) ==
    LET err == ErrorLookup(errors, result)
        scaled == ScaleByType(item.type, result)
    IN  [value_raw |-> result,
         value |-> IF err # <<>> THEN MkError(err[1])
                   ELSE IF "code" \in DOMAIN item
                        THEN MkCoded(CodedLoop(item.code, 1, scaled.mant, <<>>))
                        ELSE scaled]

\* round(value * 10^k): exact when value has at most k decimals.
RoundScaled(value, k) ==
    IF value.dec <= k THEN value.mant * Pow10(k - value.dec)
    ELSE RoundHalfEven(value.mant, Pow10(value.dec - k))

\* set_register(): "Apply type factor".
EncodeValue(type, value) ==
    IF type = 2 THEN MkNum(RoundScaled(value, 1), 0)
    ELSE IF type = 7 THEN MkNum(RoundScaled(value, 2), 0)
    ELSE MkNum(value.mant, value.dec)

\* value not in register[1]['code'].values()
ValueInCode(code, value) == \E i \in DOMAIN code : NumEq(value, MkNum(code[i][2], 0))

----------------------------------------------------------------------------
(* Bounds and input sets *)

\* Calls (update() or set_register()) made on the session in one run.
MaxCalls == 2

\* Largest of the consecutive raw words 0..MaxWord the codec is run on.
MaxWord == 160

\* Longest code map, and largest entry, of the generated code maps.
MaxMapLen == 3

MaxMapVal == 4

\* Reads the transport answers abnormally (wrong length, error response,
\* exception) in one run.
MaxAnomalies == 2

\* Words the device holds in every register during one update() of the session runs.
ReadWords == {2, 123}

\* Raw words the codec is run on: small words, the error sentinels, a signed
\* reading of the bus states, the controller ids and the ends of the 16-bit range.
CodecWords ==
    (0..MaxWord) \cup {-60, -50, -4, -3, -2, -1, 103, 104, 390, 391, 449,
                       32765, 32767, 32768, 65532, 65533, 65534, 65535}

Units == {"LWZ", "WPM", "XYZ"}

\* Names and values handed to set_register().
SetNames ==
    {"OPERATING_MODE", "ROOM_TEMP_HEAT_DAY_HC1", "OUTSIDE_TEMPERATURE",
     "FAULT_STATUS", "NO_SUCH_REGISTER"}

SetValues == {MkNum(11, 0), MkNum(225, 1)}

\* Generated registers with a code map, for the codec runs: every sequence of
\* up to MaxMapLen entries with values in -1..MaxMapVal, labelled by position.
SynthLabels == <<"A", "B", "C", "D", "E", "F">>

SynthItems ==
    UNION {{[name |-> "SYNTH", addr |-> 1, type |-> 6,
             code |-> [i \in 1..n |-> <<SynthLabels[i], vals[i]>>]] :
               vals \in [1..n -> -1..MaxMapVal]} : n \in 1..MaxMapLen}

SynthWords == 0..(2 * MaxMapVal)

----------------------------------------------------------------------------
(* State *)

VARIABLES
    pc,            \* "new", "ready" (constructed, no call running), "updating", "failed", "codec"
    unit,          \* self._unit
    connected,     \* what self._client.connect() returned in __init__
    value_raw,     \* item['value_raw'] of register i of list k of REGISTERS['LWZ']
    value,         \* item['value'] of register i of list k of REGISTERS['LWZ']
    before_raw,    \* value_raw when the running (or last) call was made
    before_value,  \* value when the running (or last) call was made
    pos,           \* the list update() reads next
    dev,           \* the word the device holds during this update()
    reads,         \* the ranged reads issued by the running (or last) call
    updated,       \* the lists whose registers the call has overwritten
    mismatch,      \* the lists whose read was answered with a wrong number of words
    fault,         \* where and how the transport failed in the call
    outcome,       \* what the caller got from the last call
    writes,        \* every write_register() issued, in order
    last_set,      \* the set_register() call, when that was the last call
    calls,         \* calls made so far
    anomalies,     \* reads answered abnormally so far
    cur_item,      \* codec runs: the register being decoded
    cur_word,      \* codec runs: the raw word read for it
    cur_decoded,   \* codec runs: its 'value_raw' and 'value' once decoded
    cur_encoded,   \* codec runs: the decoded number encoded again
    other          \* the fields of the process's second session object

vars ==
    <<pc, unit, connected, value_raw, value, before_raw, before_value, pos, dev,
      reads, updated, mismatch, fault, outcome, writes, last_set, calls,
      anomalies, cur_item, cur_word, cur_decoded, cur_encoded, other>>

registerVars == <<value_raw, value>>

updateVars == <<before_raw, before_value, pos, dev, reads, updated, mismatch, fault>>

codecVars == <<cur_item, cur_word, cur_decoded, cur_encoded>>

NoFault == [k |-> 0, kind |-> "none"]

\* A session object that has not been constructed.
NoSession == [pc |-> "new", unit |-> "", connected |-> FALSE]

OutNone == [op |-> "none", raised |-> FALSE, exc |-> "", value |-> "None"]

OutReturn(op, v) == [op |-> op, raised |-> FALSE, exc |-> "", value |-> v]

OutRaise(op, e) == [op |-> op, raised |-> TRUE, exc |-> e, value |-> ""]

\* No register of the table has a 'value' or 'value_raw' key.
NoValues == [k \in 1..NumLists |-> [i \in 1..Len(LWZ_LISTS[k].regs) |-> <<>>]]

NoSet == [name |-> "", value |-> MkNum(0, 0), event |-> "none", writes_before |-> 0]

\* The module as imported: no register has a 'value' or 'value_raw' key, no session yet.
Init ==
    /\ pc = "new"
    /\ unit = ""
    /\ connected = FALSE
    /\ value_raw = NoValues
    /\ value = NoValues
    /\ before_raw = NoValues
    /\ before_value = NoValues
    /\ pos = 0
    /\ dev = 0
    /\ reads = <<>>
    /\ updated = {}
    /\ mismatch = {}
    /\ fault = NoFault
    /\ outcome = OutNone
    /\ writes = <<>>
    /\ last_set = NoSet
    /\ calls = 0
    /\ anomalies = 0
    /\ cur_item = [name |-> "", addr |-> 0, type |-> 0]
    /\ cur_word = 0
    /\ cur_decoded = <<>>
    /\ cur_encoded = <<>>
    /\ other = NoSession

----------------------------------------------------------------------------
(* The session *)

\* __init__(unit, isg_ip): an unknown unit raises; connect()'s result is not looked at.
Construct(u, ok) ==
    /\ pc = "new"
    /\ IF u \notin DOMAIN REGISTERS
       THEN /\ pc' = "failed"
            /\ outcome' = OutRaise("init", "Exception: No registers found for unit")
            /\ UNCHANGED <<unit, connected>>
       ELSE /\ pc' = "ready"
            /\ unit' = u
            /\ connected' = ok
            /\ outcome' = OutReturn("init", "None")
    /\ UNCHANGED <<registerVars, updateVars, writes, last_set, calls, anomalies, codecVars,
                   other>>

\* REGISTERS[self._unit]['BLOCKS'], flattened to the lists update() reads.
Lists(u) == ListsFrom(REGISTERS[u].BLOCKS, 1)

\* What the transport can answer to a ranged read of count registers while the
\* device holds word w: the words, too few, too many or no words, an error
\* response (an object without .registers), or an exception raised by the client.
ReadResponses(count, w) ==
    {[kind |-> "registers", registers |-> [i \in 1..n |-> w]] :
        n \in {count, count - 1, count + 1, 0}}
    \cup {[kind |-> "error_response", registers |-> <<>>],
          [kind |-> "raise", registers |-> <<>>]}

\* The length check left out: any non-empty word list is mapped onto the list.
ResultsUsable_NoLengthCheck(results, count) == results # <<>>

\* if results and len(results) == count
ResultsUsable(results, count) == results # <<>> /\ Len(results) = count

\* for idx, result in enumerate(results): item = block[rtype][idx]; ...
\* The new 'value_raw' (fld "value_raw") or 'value' (fld "value") of the list's registers.
ApplyResults(regs, results, errors, old, fld) ==
    [i \in 1..Len(regs) |->
        IF i <= Len(results)
        THEN <<DecodeItem(regs[i], results[i], errors)[fld]>>
        ELSE old[i]]

\* update() is entered: ret = False, and the blocks are looked up (a table
\* without 'BLOCKS' raises KeyError, which the except clause does not catch).
UpdateCall(w) ==
    /\ pc = "ready"
    /\ calls < MaxCalls
    /\ calls' = calls + 1
    /\ before_raw' = value_raw
    /\ before_value' = value
    /\ reads' = <<>>
    /\ updated' = {}
    /\ mismatch' = {}
    /\ fault' = NoFault
    /\ dev' = w
    /\ IF "BLOCKS" \in DOMAIN REGISTERS[unit]
       THEN /\ pc' = "updating"
            /\ pos' = 1
            /\ outcome' = OutReturn("update", "pending")
       ELSE /\ pc' = "ready"
            /\ pos' = 0
            /\ outcome' = OutRaise("update", "KeyError: 'BLOCKS'")
    /\ last_set' = NoSet
    /\ UNCHANGED <<unit, connected, registerVars, writes, anomalies, codecVars, other>>

\* One pass of update()'s loop body: the ranged read of the next list and what
\* follows it, up to the return when this was the last list or the read failed.
UpdateRead ==
    /\ pc = "updating"
    /\ LET l == Lists(unit)[pos]
           address == l.regs[1].addr - 1
           count == Len(l.regs)
           errors == REGISTERS[unit].ERRORS
       IN  \E resp \in ReadResponses(count, dev) :
             /\ IF resp.kind = "registers" /\ Len(resp.registers) = count
                THEN UNCHANGED anomalies
                ELSE anomalies < MaxAnomalies /\ anomalies' = anomalies + 1
             /\ reads' = Append(reads, [fn |-> IF l.rtype = "INPUT"
                                                THEN "read_input_registers"
                                                ELSE "read_holding_registers",
                                         address |-> address, count |-> count])
             /\ IF resp.kind = "raise"
                THEN \* the client's exception is no AttributeError: it leaves update()
                     /\ pc' = "ready"
                     /\ fault' = [k |-> pos, kind |-> "raise"]
                     /\ outcome' = OutRaise("update", "ConnectionException")
                     /\ UNCHANGED <<registerVars, pos, updated, mismatch>>
                ELSE IF resp.kind = "error_response"
                THEN \* .registers raises AttributeError: logged, ret is still False
                     /\ pc' = "ready"
                     /\ fault' = [k |-> pos, kind |-> "error_response"]
                     /\ outcome' = OutReturn("update", "False")
                     /\ UNCHANGED <<registerVars, pos, updated, mismatch>>
                ELSE /\ IF ResultsUsable(resp.registers, count)
                        THEN /\ value_raw' = [value_raw EXCEPT ![pos] =
                                    ApplyResults(l.regs, resp.registers, errors,
                                                 value_raw[pos], "value_raw")]
                             /\ value' = [value EXCEPT ![pos] =
                                    ApplyResults(l.regs, resp.registers, errors,
                                                 value[pos], "value")]
                             /\ updated' = updated \cup {pos}
                        ELSE \* logger.warning("Inconsistent register/result amounts")
                             UNCHANGED <<registerVars, updated>>
                     /\ mismatch' = IF Len(resp.registers) # count
                                    THEN mismatch \cup {pos} ELSE mismatch
                     /\ IF pos = Len(Lists(unit))
                        THEN /\ pc' = "ready"     \* ret = True; return ret
                             /\ outcome' = OutReturn("update", "True")
                             /\ UNCHANGED pos
                        ELSE /\ pos' = pos + 1
                             /\ UNCHANGED <<pc, outcome>>
                     /\ UNCHANGED fault
    /\ UNCHANGED <<unit, connected, before_raw, before_value, dev, writes, last_set,
                   calls, codecVars, other>>

\* for my_register in my_register_set: if my_register[0] == name: ...; break
FindInSet(regs, name) ==
    LET hits == {i \in 1..Len(regs) : regs[i].name = name}
    IN  IF hits = {} THEN <<>>
        ELSE <<regs[CHOOSE i \in hits : \A j \in hits : i <= j]>>

\* The register sets _find_register() scans in one block: with a filter, the
\* list of that type if the block has one (else the block is skipped).
SetsOfBlock(block, block_type) ==
    IF block_type # ""
    THEN IF block_type \in DOMAIN block THEN <<block[block_type]>> ELSE <<>>
    ELSE [i \in 1..Len(BlockKeys(block)) |-> block[BlockKeys(block)[i]]]

\* The scan over one block's register sets: a later hit replaces an earlier one.
RECURSIVE FindInSets(_, _, _, _)
FindInSets(sets, s, name, register) ==
    IF s > Len(sets) THEN register
    ELSE FindInSets(sets, s + 1, name,
                    IF FindInSet(sets[s], name) # <<>>
                    THEN FindInSet(sets[s], name) ELSE register)

RECURSIVE FindFrom(_, _, _, _, _)
FindFrom(blocks, b, name, block_type, register) ==
    IF b > Len(blocks) THEN register
    ELSE FindFrom(blocks, b + 1, name, block_type,
                  FindInSets(SetsOfBlock(blocks[b], block_type), 1, name, register))

\* The block_type filter ignored: every list of every block is scanned.
FindRegister_NoFilter(u, name, block_type) == FindFrom(REGISTERS[u].BLOCKS, 1, name, "", <<>>)

\* _find_register(name, block_type): <<>> is None.
FindRegister(u, name, block_type) == FindFrom(REGISTERS[u].BLOCKS, 1, name, block_type, <<>>)

\* What the transport can answer to a write.
WriteResponses == {"ack", "error_response", "raise"}

\* set_register(name, value), with the transport's answer to its write.
SetRegister(name, v, resp) ==
    /\ pc = "ready"
    /\ calls < MaxCalls
    /\ calls' = calls + 1
    /\ IF "BLOCKS" \notin DOMAIN REGISTERS[unit]
       THEN /\ outcome' = OutRaise("set_register", "KeyError: 'BLOCKS'")
            /\ last_set' = [name |-> name, value |-> v, event |-> "key_error",
                                              writes_before |-> Len(writes)]
            /\ UNCHANGED writes
       ELSE LET register == FindRegister(unit, name, "HOLDING")
            IN  IF register = <<>>
                THEN /\ outcome' = OutRaise("set_register",
                            "Exception: Register not found or not HOLDING register!")
                     /\ last_set' = [name |-> name, value |-> v, event |-> "not_found",
                                              writes_before |-> Len(writes)]
                     /\ UNCHANGED writes
                ELSE LET item == register[1]
                         enc == EncodeValue(item.type, v)
                     IN  IF "code" \in DOMAIN item /\ ~ValueInCode(item.code, enc)
                         THEN /\ outcome' = OutRaise("set_register",
                                                     "Exception: Value not supported!")
                              /\ last_set' = [name |-> name, value |-> v,
                                              event |-> "unsupported",
                                              writes_before |-> Len(writes)]
                              /\ UNCHANGED writes
                         ELSE /\ writes' = Append(writes, [name |-> item.name,
                                                           address |-> item.addr - 1,
                                                           value |-> enc])
                              /\ last_set' = [name |-> name, value |-> v,
                                              event |-> "write_" \o resp,
                                              writes_before |-> Len(writes)]
                              /\ outcome' = IF resp = "raise"
                                            THEN OutRaise("set_register", "ConnectionException")
                                            ELSE \* pprint(response); no return statement
                                                 OutReturn("set_register", "None")
    /\ before_raw' = value_raw
    /\ before_value' = value
    /\ pos' = 0
    /\ dev' = 0
    /\ reads' = <<>>
    /\ updated' = {}
    /\ mismatch' = {}
    /\ fault' = NoFault
    /\ UNCHANGED <<pc, unit, connected, registerVars, anomalies, codecVars, other>>

Next ==
    \/ \E u \in Units, ok \in BOOLEAN : Construct(u, ok)
    \/ \E w \in ReadWords : UpdateCall(w)
    \/ UpdateRead
    \/ \E name \in SetNames, v \in SetValues, resp \in WriteResponses : SetRegister(name, v, resp)

Spec == Init /\ [][Next]_vars

----------------------------------------------------------------------------
(* Properties of the session runs (Spec) *)

\* The registers of list k all hold the raw word w and its decoding.
ListHolds(k, w) ==
    \A i \in 1..Len(LWZ_LISTS[k].regs) :
        /\ value_raw[k][i] = <<w>>
        /\ value[k][i] = <<DecodeItem(LWZ_LISTS[k].regs[i], w, LWZ_ERRORS).value>>

\* The registers of list k are as they were when update() was called.
ListAsBefore(k) == value_raw[k] = before_raw[k] /\ value[k] = before_value[k]

UpdateFaulted == outcome.op = "update" /\ fault.kind # "none"

\* C1: whatever way the transport fails during a ranged read (an error response
\* or an exception raised by the client), update() raises nothing and returns
\* False.  Stated for the sessions whose connect() succeeded; C6 is about the others.
C1_UpdateReturnsFalseOnAnyFault ==
    (UpdateFaulted /\ connected) => ~outcome.raised /\ outcome.value = "False"

\* C2: after a transport fault at the read of list k, that read is the last one
\* of the call, update() has returned False, every list overwritten earlier in
\* the call holds its new raw and decoded values and every other list holds
\* what it held before the call.  Stated for the sessions whose connect() succeeded.
C2_FaultAbortsKeepingValues ==
    (UpdateFaulted /\ connected) =>
        /\ Len(reads) = fault.k
        /\ ~outcome.raised /\ outcome.value = "False"
        /\ \A k \in updated : ListHolds(k, dev)
        /\ \A k \in (1..NumLists) \ updated : ListAsBefore(k)

\* The part of C2 that does not depend on how the failure reaches the caller:
\* no later read, nothing rolled back, nothing cleared.
AbortKeepsValues ==
    UpdateFaulted =>
        /\ Len(reads) = fault.k
        /\ updated \subseteq 1..(fault.k - 1)
        /\ \A k \in updated : ListHolds(k, dev)
        /\ \A k \in (1..NumLists) \ updated : ListAsBefore(k)

\* C3: a read answered with a wrong number of words (none included) changes no
\* register of its list; update() goes on with the next list, and, when no
\* transport fault ends the call, reads every list, overwrites every list
\* answered in full and returns True.
C3_LengthMismatchSkipsOnlyThatList ==
    \A k \in mismatch :
        /\ ListAsBefore(k)
        /\ k \notin updated
        /\ pc = "updating" => pos > k
        /\ (pc = "ready" /\ fault.kind = "none") =>
              /\ Len(reads) = NumLists
              /\ \A j \in (1..NumLists) \ mismatch : j \in updated /\ ListHolds(j, dev)
              /\ outcome.op = "update" => outcome = OutReturn("update", "True")

\* An update() that returned True although the read of a list that held values
\* was answered with a wrong number of words, and that overwrote another list.
C3_Witness ==
    /\ pc = "ready"
    /\ outcome = OutReturn("update", "True")
    /\ \E k \in mismatch, j \in updated :
          /\ before_raw[k] # NoValues[k]
          /\ value_raw[j] # before_raw[j]

\* The names declared in some HOLDING list of the catalogue.
HoldingNames ==
    UNION {{LWZ_LISTS[k].regs[i].name : i \in 1..Len(LWZ_LISTS[k].regs)} :
              k \in {l \in 1..NumLists : LWZ_LISTS[l].rtype = "HOLDING"}}

\* C4: no write is ever issued for a register that no HOLDING list declares, and
\* a set_register() naming such a register (or an unknown name) raises the
\* not-found exception without writing.
C4_NoWriteToInputRegister ==
    /\ \A w \in 1..Len(writes) :
          /\ writes[w].name \in HoldingNames
          /\ writes[w].address = ItemOf(writes[w].name).addr - 1
    /\ (outcome.op = "set_register" /\ unit = "LWZ" /\ last_set.name \notin HoldingNames) =>
          /\ outcome = OutRaise("set_register",
                                "Exception: Register not found or not HOLDING register!")
          /\ Len(writes) = last_set.writes_before

\* set_register('FAULT_STATUS', 11): an INPUT register, and a value its code map
\* does not hold, after an earlier write went through.
C4_Witness ==
    /\ outcome.op = "set_register"
    /\ unit = "LWZ"
    /\ last_set.name = "FAULT_STATUS"
    /\ last_set.value = MkNum(11, 0)
    /\ outcome.raised
    /\ writes # <<>>

\* C5: a set_register() whose write fails (the client raises, or answers with an
\* error response) fails for the caller, and the caller can tell apart: write
\* acknowledged, register not found, value not supported, write failed.
\* Stated for the sessions whose connect() succeeded.
C5_WriteFailureSurfaced ==
    (outcome.op = "set_register" /\ connected) =>
        /\ last_set.event = "write_ack" => outcome = OutReturn("set_register", "None")
        /\ last_set.event = "not_found" =>
              outcome = OutRaise("set_register",
                                 "Exception: Register not found or not HOLDING register!")
        /\ last_set.event = "unsupported" =>
              outcome = OutRaise("set_register", "Exception: Value not supported!")
        /\ last_set.event \in {"write_raise", "write_error_response"} =>
              /\ outcome.raised
              /\ outcome.exc \notin {"Exception: Register not found or not HOLDING register!",
                                     "Exception: Value not supported!"}

\* C6: a session whose connect() did not succeed issues no ranged read and no write.
C6_NoTransferWithoutConnection ==
    (pc \in {"ready", "updating"} /\ ~connected) => reads = <<>> /\ writes = <<>>

\* C11: every list is declared in address order without gaps, so the word that
\* update() maps onto the register at index i of a list it has overwritten,
\* the i-th word of the ranged read, was read from that register's own address.
\* Stated for the sessions whose connect() succeeded.
C11_WordsComeFromOwnAddress ==
    connected =>
    \A k \in updated :
        /\ k <= Len(reads)
        /\ \A i \in 1..Len(LWZ_LISTS[k].regs) :
              LWZ_LISTS[k].regs[i].addr - 1 = reads[k].address + (i - 1)

\* C12: an update() call on a session that construction accepted, with no
\* communication fault on the way, ends by returning a boolean; it never ends
\* by raising, whatever unit family the session was constructed for.
\* Stated for the sessions whose connect() succeeded.
C12_AcceptedUnitUpdateReturnsBoolean ==
    (pc = "ready" /\ connected /\ outcome.op = "update" /\ fault.kind = "none") =>
        outcome = OutReturn("update", "True") \/ outcome = OutReturn("update", "False")

----------------------------------------------------------------------------
(* Two sessions in one process (TwoSessionSpec) *)

\* get_registers() of a session of unit u: REGISTERS[self._unit]['BLOCKS'], the
\* module's own table, with the 'value_raw' and 'value' entries update() put
\* into its items. A unit without 'BLOCKS' has no registers to return.
GetRegisters(u) ==
    IF "BLOCKS" \in DOMAIN REGISTERS[u]
    THEN [value_raw |-> value_raw, value |-> value]
    ELSE [value_raw |-> <<>>, value |-> <<>>]

\* The caller turns to its other session object: each object holds its own
\* _unit and _client, nothing else, and the calls that follow are made on the
\* object turned to. No call is running on either.
SwitchSession ==
    /\ pc \in {"new", "ready"}
    /\ other' = [pc |-> pc, unit |-> unit, connected |-> connected]
    /\ pc' = other.pc
    /\ unit' = other.unit
    /\ connected' = other.connected
    /\ before_raw' = value_raw
    /\ before_value' = value
    /\ reads' = <<>>
    /\ updated' = {}
    /\ mismatch' = {}
    /\ fault' = NoFault
    /\ outcome' = OutNone
    /\ last_set' = NoSet
    /\ UNCHANGED <<registerVars, pos, dev, writes, calls, anomalies, codecVars>>

TwoSessionNext ==
    \/ Next
    \/ SwitchSession

TwoSessionSpec == Init /\ [][TwoSessionNext]_vars

\* C13: register state belongs to one session. While the other session of the
\* same unit family stands constructed, no step of an update() running on this
\* session changes what get_registers() of the other one returns; and a session
\* just constructed for a family that has registers has no raw or decoded
\* value for any of them. Stated for sessions whose connect() succeeded.
C13_RegisterStatePerSession ==
    [][ /\ ( /\ pc = "updating" /\ connected
             /\ other.pc = "ready" /\ other.connected /\ other.unit = unit ) =>
              GetRegisters(other.unit)' = GetRegisters(other.unit)
        /\ ( /\ pc = "new" /\ pc' = "ready" /\ connected'
             /\ other.pc = "ready" /\ other.connected /\ other.unit = unit'
             /\ "BLOCKS" \in DOMAIN REGISTERS[unit'] ) =>
              GetRegisters(unit)' = [value_raw |-> NoValues, value |-> NoValues]
      ]_vars

----------------------------------------------------------------------------
(* Codec runs: one register and one raw word, decoded as update() does and, *)
(* when the result is a number, encoded again as set_register() does.       *)

CodecInit ==
    /\ pc = "codec"
    /\ unit = "LWZ"
    /\ connected = TRUE
    /\ value_raw = NoValues
    /\ value = NoValues
    /\ before_raw = NoValues
    /\ before_value = NoValues
    /\ pos = 0
    /\ dev = 0
    /\ reads = <<>>
    /\ updated = {}
    /\ mismatch = {}
    /\ fault = NoFault
    /\ outcome = OutNone
    /\ writes = <<>>
    /\ last_set = NoSet
    /\ calls = 0
    /\ anomalies = 0
    /\ \/ cur_item \in AllItems /\ cur_word \in CodecWords
       \/ cur_item \in SynthItems /\ cur_word \in SynthWords
    /\ cur_decoded = <<>>
    /\ cur_encoded = <<>>
    /\ other = NoSession

\* item['value_raw'] = result; ...; item['value'] = result
DecodeStep ==
    /\ pc = "codec"
    /\ cur_decoded = <<>>
    /\ cur_decoded' = <<DecodeItem(cur_item, cur_word, REGISTERS[unit].ERRORS)>>
    /\ UNCHANGED <<pc, unit, connected, registerVars, updateVars, outcome, writes,
                   last_set, calls, anomalies, cur_item, cur_word, cur_encoded, other>>

\* value = round(value * 10) or round(value * 100), on the decoded number
EncodeStep ==
    /\ pc = "codec"
    /\ cur_decoded # <<>>
    /\ cur_encoded = <<>>
    /\ cur_decoded[1].value.kind = "num"
    /\ cur_encoded' = <<EncodeValue(cur_item.type, cur_decoded[1].value)>>
    /\ UNCHANGED <<pc, unit, connected, registerVars, updateVars, outcome, writes,
                   last_set, calls, anomalies, cur_item, cur_word, cur_decoded, other>>

CodecNext == DecodeStep \/ EncodeStep

CodecSpec == CodecInit /\ [][CodecNext]_vars

----------------------------------------------------------------------------
(* Properties of the codec runs (CodecSpec) *)

Decoded == cur_decoded # <<>>

IsSentinel(w) == \E e \in 1..Len(LWZ_ERRORS) : LWZ_ERRORS[e][2] = w

\* C7: a type-7 raw 16-bit word r that is no error sentinel decodes to r * 0.01, and
\* encoding the decoded value, round(value * 100), gives r back.
C7_Type7RoundTrip ==
    (Decoded /\ cur_item.type = 7 /\ cur_word \in 0..65535 /\ ~IsSentinel(cur_word)) =>
        /\ cur_decoded[1].value.kind = "num"
        /\ NumEq(cur_decoded[1].value, MkNum(cur_word, 2))
        /\ cur_encoded # <<>> => cur_encoded[1] = MkNum(cur_word, 0)

\* The labels the code map gives the value v: the first entry equal to v alone,
\* else the entries that share a bit with v, in declaration order.
ExpectedLabels(code, v) ==
    LET exact == {i \in 1..Len(code) : code[i][2] = v}
        bits == SelectSeq(code, LAMBDA e : BitAnd(e[2], v) # 0)
    IN  IF exact # {}
        THEN <<code[CHOOSE i \in exact : \A j \in exact : i <= j][1]>>
        ELSE [i \in 1..Len(bits) |-> bits[i][1]]

\* C8: with a code map, a value that some entry equals decodes to the list of
\* the first such label alone, whatever bits the other entries share with it;
\* a value no entry equals decodes to the labels of the entries sharing a bit
\* with it, in declaration order (none for 0).
C8_ExactMatchBeforeBitmask ==
    (Decoded /\ "code" \in DOMAIN cur_item /\ ~IsSentinel(cur_word)) =>
        cur_decoded[1].value = MkCoded(ExpectedLabels(cur_item.code, cur_word))

\* A value equal to the second entry while the first and the third entry share
\* a bit with it: decoded to the second label alone.
C8_Witness ==
    /\ Decoded
    /\ "code" \in DOMAIN cur_item
    /\ Len(cur_item.code) = 3
    /\ cur_item.code[2][2] = cur_word
    /\ cur_item.code[1][2] # cur_word /\ BitAnd(cur_item.code[1][2], cur_word) # 0
    /\ cur_item.code[3][2] # cur_word /\ BitAnd(cur_item.code[3][2], cur_word) # 0
    /\ cur_decoded[1].value.labels = <<cur_item.code[2][1]>>

\* C9: for a register of any type, with or without a code map, a raw word equal
\* to a sentinel of the error table is stored as raw value and decodes to the
\* sentinel's name, unscaled and not looked up in the code map.
C9_SentinelShortCircuits ==
    Decoded =>
        \A e \in 1..Len(LWZ_ERRORS) :
            cur_word = LWZ_ERRORS[e][2] =>
                /\ cur_decoded[1].value = MkError(LWZ_ERRORS[e][1])
                /\ cur_decoded[1].value_raw = cur_word

\* The sensor-lead sentinel read for a coded register.
C9_Witness ==
    /\ Decoded
    /\ cur_item.name = "OPERATING_MODE"
    /\ cur_word = -60
    /\ cur_decoded[1].value.kind = "error"

\* The registers whose code map lists mutually exclusive states.
EnumRegisters ==
    {"OPERATING_MODE", "RESET", "RESTART_ISG", "FAULT_STATUS", "BUS_STATUS",
     "EM_SGREADY_OPERATING_MODE", "CONTROLLER_ID"}

\* C10: for a register whose code map is an enumeration, whatever 16-bit word is
\* read, the decoded list never holds more than one label.
C10_EnumDecodesToOneLabel ==
    (Decoded /\ cur_item.name \in EnumRegisters /\ cur_word \in 0..65535
       /\ cur_decoded[1].value.kind = "coded") =>
        Len(cur_decoded[1].value.labels) <= 1

====
